---- MODULE Spec2Model ----
(***************************************************************************)
(* State-machine model of MessageBus (src/src/MessageBus.js): the          *)
(* connection lifecycle (connect / disconnect / reconnect loop), the       *)
(* consumer registry (subscribe / unsubscribe) and the confirmed publish   *)
(* path, running against an AMQP broker that may refuse or drop            *)
(* connections.  Every await of the source is a separate step, so calls    *)
(* interleave the way promises of one Node.js process do.  The messages    *)
(* themselves (encrypt, the broker's queues, the listeners and their done  *)
(* callbacks) move in DeliverySpec; the constructor and the codec called   *)
(* on their own are CodecSpec; the single-subscription variant of the bus  *)
(* (src/unnamed/part_002) is SingleSpec.                                   *)
(***************************************************************************)
EXTENDS Integers, FiniteSets, Sequences, Bags, TLC

\* ---- bounds of the model ------------------------------------------------
\* what happens to the bus from outside over a run: the caller's API calls
\* and the connections the broker or the network drops
MaxEvents == 3
\* the same for the single-subscription variant, whose state space is smaller
SingleMaxEvents == 4

Null == 0
\* a handle to a connection that has closed, or to a channel of one: every
\* request on it fails and it never opens again, whichever connection it was
Dead == -1
Queues == {"q1", "q2"}
\* a call is named by its position among the events; subscribe() number g
\* generates consumerTag g, publish/sendToQueue number m sends message m
MaxIds == IF SingleMaxEvents > MaxEvents THEN SingleMaxEvents ELSE MaxEvents
CallIds == 1..MaxIds
\* connection objects; the identifier of a closed one is used again
ConnIds == 1..(MaxIds + 1)

VARIABLES
  conn,             \* this.conn: Null or a connection id
  incomingChannel,  \* this.incomingChannel: Null or the connection the channel is on
  outgoingChannel,  \* this.outgoingChannel: Null or the connection the channel is on
  consumers,        \* this.consumers: consumerTag -> queue
  conns,            \* broker side: per connection object, its state and listeners
  tasks,            \* bag of pending async calls, each at its current await
  active,           \* broker side: consumerTag -> connection it consumes on (Null: none)
  subResult,        \* per consumerTag, how its subscribe() call ended
  pubResult,        \* per message, state of the promise publish/sendToQueue returned
  brokerConf,       \* per message, what the confirm channel has reported
  pubCh,            \* per pending message, the channel it was handed to
  nevents,          \* number of caller calls and broker faults so far
  last,             \* the latest call of the caller and how it ended, where the
                    \* other variables do not tell
  consumerTag,      \* this.consumerTag
  encryptionKey,    \* this.encryptionKey
  sent,             \* message -> what publish/sendToQueue handed to the channel
  queued,           \* broker side: per queue, the messages ready for delivery
  cons,             \* broker side: per consumerTag, its queue and prefetch limit
  dtag,             \* broker side: per channel, the last delivery tag it used
  unacked,          \* broker side: the deliveries that are not settled yet
  calls,            \* the runs of the consume callback so far: what the listener
                    \* got, on which channel, and whether its done is still to be called
  settled           \* the latest ack or nack the bus sent, and what it settled

vars == <<conn, incomingChannel, outgoingChannel, consumers, conns, tasks, active,
          subResult, pubResult, brokerConf, pubCh, nevents, last, consumerTag,
          encryptionKey, sent, queued, cons, dtag, unacked, calls, settled>>

\* the messages: their content, their way through the broker, the listeners
wire == <<encryptionKey, sent, queued, cons, dtag, unacked, calls, settled>>

\* the connection, the channels, the registry and the pending calls
bus == <<conn, incomingChannel, outgoingChannel, consumers, conns, tasks, active,
         subResult, pubResult, brokerConf, pubCh, last, consumerTag>>

\* what a step that is no call of the caller leaves alone
api == <<last, consumerTag>>

\* last, after a call whose outcome the other variables already tell
NoCall == [op |-> "-", out |-> "-"]

\* ---- helpers --------------------------------------------------------------
\* shape of a pending call: kind and pc say where it waits, c is the handle the
\* awaited request was issued on, tags the cancels it waits for, snap the
\* registry keys disconnect() found, tag/q the arguments of subscribe()
Task == [kind |-> "-", pc |-> "-", c |-> Null, tags |-> {}, snap |-> {},
         tag |-> Null, q |-> "-"]

Put(r) == tasks (+) SetToBag({r})
Drop(r) == tasks (-) SetToBag({r})
Move(r, s) == (tasks (-) SetToBag({r})) (+) SetToBag({s})
Pending == BagToSet(tasks)

ClosedConn == [st |-> "closed", lis |-> FALSE]

\* a handle (connection or channel) on which a broker request can succeed
IsOpen(c) == c \in ConnIds /\ conns[c].st = "open"

InUse(c) == conns[c].st # "closed"

NewConn == CHOOSE c \in ConnIds :
             /\ ~InUse(c)
             /\ \A d \in ConnIds : d < c => InUse(d)

\* handle h once connection c has closed
Gone(h, c) == IF h = c THEN Dead ELSE h

\* the pending calls once connection c has closed
GoneTasks(c) ==
  LET moved(r) == [r EXCEPT !.c = Gone(r.c, c)]
      count(t) == (IF t \in Pending /\ t.c # c THEN tasks[t] ELSE 0)
                  + (IF t.c = Dead /\ [t EXCEPT !.c = c] \in Pending
                       THEN tasks[[t EXCEPT !.c = c]] ELSE 0)
  IN [t \in {moved(r) : r \in Pending} |-> count(t)]

Loops == {r \in Pending : r.kind = "loop"}
NLoops == IF Loops = {} THEN 0 ELSE BagCardinality([r \in Loops |-> tasks[r]])

WithoutAnyKey(f, g) == [k \in {} |-> f[k]]

\* Map.delete(g) and Map.set(g, q)
WithoutKey(f, g) == [k \in DOMAIN f \ {g} |-> f[k]]
WithKey(f, g, q) == [k \in DOMAIN f \cup {g} |-> IF k = g THEN q ELSE f[k]]

\* no encryptionKey option was given
NoKey == "-"
NoSettle == [by |-> Null, n |-> Null, how |-> "-"]
NoConsumer == [q |-> "-", limit |-> 1]

\* nothing was sent, delivered or settled, and the queues are empty
NoTraffic ==
  /\ encryptionKey = NoKey
  /\ sent = [m \in {} |-> Null]
  /\ queued = [q \in Queues |-> <<>>]
  /\ cons = [g \in CallIds |-> NoConsumer]
  /\ dtag = [c \in ConnIds |-> 0]
  /\ unacked = {}
  /\ calls = {}
  /\ settled = NoSettle

\* a step that moves no message
Quiet == UNCHANGED wire

\* ---- constructor (lines 23-46) ---------------------------------------------
Init ==
  /\ NoTraffic
  /\ conn = Null
  /\ incomingChannel = Null
  /\ outgoingChannel = Null
  /\ consumers = [g \in {} |-> "q1"]
  /\ conns = [c \in ConnIds |-> ClosedConn]
  /\ tasks = EmptyBag
  /\ active = [g \in CallIds |-> Null]
  /\ subResult = [g \in CallIds |-> "none"]
  /\ pubResult = [m \in CallIds |-> "none"]
  /\ brokerConf = [m \in CallIds |-> "none"]
  /\ pubCh = [m \in CallIds |-> Null]
  /\ nevents = 0
  /\ last = NoCall
  /\ consumerTag = Null

\* the next event from outside: a call of the caller, or a fault
Event ==
  /\ nevents < MaxEvents
  /\ nevents' = nevents + 1

\* ---- connect() (lines 52-72) -------------------------------------------------
\* what a throw inside connect() does to the promise chain r running it: a
\* caller's connect() rejects; the reconnect loop swallows it and waits again
\* (lines 109-117)
ThrowEscapes(r) == Drop(r)

Throw(r) ==
  IF r.kind = "loop"
    THEN Move(r, [Task EXCEPT !.kind = "loop", !.pc = "delay"])
    ELSE Drop(r)

connectUnguarded(kind) == {[Task EXCEPT !.kind = kind, !.pc = "amqp"]}

\* lines 54-59: the already-connected check, then amqp.connect() is awaited;
\* gives the pending connect(), or nothing when connect() returned at once
connect(kind) ==
  IF conn # Null THEN {} ELSE {[Task EXCEPT !.kind = kind, !.pc = "amqp"]}

ConnectCall ==
  /\ Event
  /\ tasks' = tasks (+) SetToBag(connect("connect"))
  /\ last' = NoCall
  /\ UNCHANGED consumerTag
  /\ UNCHANGED <<conn, incomingChannel, outgoingChannel, consumers, conns, active,
                 subResult, pubResult, brokerConf, pubCh>>

\* lines 59-68: amqp.connect() resolved; conn is stored, the error and close
\* observers are attached, createChannel() is awaited
AmqpAccept(r) ==
  /\ r.pc = "amqp"
  /\ \E c \in ConnIds : ~InUse(c)
  /\ LET c == NewConn IN
       /\ conns' = [conns EXCEPT ![c] = [st |-> "open", lis |-> TRUE]]
       /\ conn' = c
       /\ tasks' = Move(r, [r EXCEPT !.pc = "chan", !.c = c])
  /\ UNCHANGED <<incomingChannel, outgoingChannel, consumers, active,
                 subResult, pubResult, brokerConf, pubCh, nevents>>
  /\ UNCHANGED api

\* line 59: amqp.connect() rejected (broker unreachable)
AmqpReject(r) ==
  /\ r.pc = "amqp"
  /\ tasks' = Throw(r)
  /\ UNCHANGED <<conn, incomingChannel, outgoingChannel, consumers, conns, active,
                 subResult, pubResult, brokerConf, pubCh, nevents>>
  /\ UNCHANGED api

\* lines 68-69: createChannel() resolved; createConfirmChannel() is called on
\* whatever this.conn is now (a TypeError when it is null)
CreateChannelOk(r) ==
  /\ r.pc = "chan"
  /\ IsOpen(r.c)
  /\ incomingChannel' = r.c
  /\ tasks' = IF conn = Null THEN Throw(r)
              ELSE Move(r, [r EXCEPT !.pc = "cchan", !.c = conn])
  /\ UNCHANGED <<conn, outgoingChannel, consumers, conns, active,
                 subResult, pubResult, brokerConf, pubCh, nevents>>
  /\ UNCHANGED api

\* lines 69-71: createConfirmChannel() resolved; prefetch(1) is called on
\* whatever this.incomingChannel is now (a TypeError when it is null)
CreateConfirmChannelOk(r) ==
  /\ r.pc = "cchan"
  /\ IsOpen(r.c)
  /\ outgoingChannel' = r.c
  /\ tasks' = IF incomingChannel = Null THEN Throw(r)
              ELSE Move(r, [r EXCEPT !.pc = "prefetch", !.c = incomingChannel])
  /\ UNCHANGED <<conn, incomingChannel, consumers, conns, active,
                 subResult, pubResult, brokerConf, pubCh, nevents>>
  /\ UNCHANGED api

PrefetchOkResubscribes(r) ==
  /\ r.pc = "prefetch"
  /\ IsOpen(r.c)
  /\ tasks' = Drop(r) (+) SetToBag(
       {[Task EXCEPT !.kind = "subscribe", !.pc = "consume", !.c = incomingChannel,
                     !.tag = g, !.q = consumers[g]] : g \in DOMAIN consumers})
  /\ UNCHANGED <<conn, incomingChannel, outgoingChannel, consumers, conns, active,
                 subResult, pubResult, brokerConf, pubCh, nevents>>
  /\ UNCHANGED api

\* lines 71-72: prefetch(1) resolved; connect() returns (the loop breaks)
PrefetchOk(r) ==
  /\ r.pc = "prefetch"
  /\ IsOpen(r.c)
  /\ tasks' = Drop(r)
  /\ UNCHANGED <<conn, incomingChannel, outgoingChannel, consumers, conns, active,
                 subResult, pubResult, brokerConf, pubCh, nevents>>
  /\ UNCHANGED api

\* lines 68-71: a channel request rejects because its connection is gone
ChannelRpcRejected(r) ==
  /\ r.pc \in {"chan", "cchan", "prefetch"}
  /\ ~IsOpen(r.c)
  /\ tasks' = Throw(r)
  /\ UNCHANGED <<conn, incomingChannel, outgoingChannel, consumers, conns, active,
                 subResult, pubResult, brokerConf, pubCh, nevents>>
  /\ UNCHANGED api

\* ---- reconnect() (lines 105-118) ---------------------------------------------
\* EventEmitter.removeAllListeners() on connection c
removeAllListeners(cs, c) ==
  IF c \in ConnIds THEN [cs EXCEPT ![c].lis = FALSE] ELSE cs

\* the confirm callback of publish/sendToQueue (lines 283, 348): () => resolve()
onConfirm(err) == "resolved"

\* reconnect() up to its first await (lines 105-110), run by the close observer
\* of the connection c that just closed (lines 63-65): it detaches the observers
\* of this.conn, clears conn and starts the retry loop; with this.conn null,
\* line 106 throws instead
reconnect(c) ==
  IF conn # Null
    THEN /\ conns' = [removeAllListeners(conns, conn) EXCEPT ![c] = ClosedConn]
         /\ conn' = Null
         /\ tasks' = GoneTasks(c) (+) SetToBag({[Task EXCEPT !.kind = "loop", !.pc = "delay"]})
         /\ incomingChannel' = Gone(incomingChannel, c)
         /\ outgoingChannel' = Gone(outgoingChannel, c)
         /\ UNCHANGED consumers
    ELSE /\ conns' = [conns EXCEPT ![c] = ClosedConn]
         /\ tasks' = GoneTasks(c)
         /\ incomingChannel' = Gone(incomingChannel, c)
         /\ outgoingChannel' = Gone(outgoingChannel, c)
         /\ UNCHANGED <<conn, consumers>>

\* connection c is gone at the broker: its channels close and its consumers
\* end; the publishes still unconfirmed on it get their callback with an error
\* (cb) or never get it, as the amqplib release in use (package.json line 35
\* allows ^0.5.2) does; then 'close' is emitted to the observers still attached
ConnectionClosed(c, cb) ==
  /\ active' = [g \in CallIds |-> IF active[g] = c THEN Null ELSE active[g]]
  /\ brokerConf' = [m \in CallIds |->
        IF pubResult[m] = "pending" /\ pubCh[m] = c THEN "closed" ELSE brokerConf[m]]
  /\ pubResult' = [m \in CallIds |->
        IF pubResult[m] = "pending" /\ pubCh[m] = c /\ cb
          THEN onConfirm(TRUE) ELSE pubResult[m]]
  /\ pubCh' = [m \in CallIds |-> IF pubCh[m] = c THEN Null ELSE pubCh[m]]
  /\ IF conns[c].lis
       THEN reconnect(c)
       ELSE /\ conns' = [conns EXCEPT ![c] = ClosedConn]
            /\ conn' = Gone(conn, c)
            /\ tasks' = GoneTasks(c)
            /\ incomingChannel' = Gone(incomingChannel, c)
            /\ outgoingChannel' = Gone(outgoingChannel, c)
            /\ UNCHANGED consumers

\* the broker or the network drops an open connection
Fault(c) ==
  /\ conns[c].st = "open"
  /\ Event
  /\ \E cb \in BOOLEAN : ConnectionClosed(c, cb)
  /\ UNCHANGED subResult
  /\ UNCHANGED api

\* lines 109-112: the delay elapsed, the loop calls connect()
LoopAttempt(r) ==
  /\ r.kind = "loop"
  /\ r.pc = "delay"
  /\ tasks' = Drop(r) (+) SetToBag(connect("loop"))
  /\ UNCHANGED <<conn, incomingChannel, outgoingChannel, consumers, conns, active,
                 subResult, pubResult, brokerConf, pubCh, nevents>>
  /\ UNCHANGED api

\* ---- unsubscribe() (lines 207-217) -------------------------------------------
\* a pending cancel of r is done with tag g: the task ends once a single
\* unsubscribe() or the rest of a rejected drain has nothing left to wait for
AfterCancel(r, g) ==
  LET rest == r.tags \ {g} IN
  IF rest = {} /\ r.kind \in {"unsubscribe", "orphan"}
    THEN Drop(r)
    ELSE Move(r, [r EXCEPT !.tags = rest])

\* lines 211-215: the unknown-tag check, then cancel() is awaited on
\* this.incomingChannel; gives the pending unsubscribe(g), nothing when it threw
unsubscribe(g) ==
  IF g \in DOMAIN consumers
    THEN {[Task EXCEPT !.kind = "unsubscribe", !.pc = "cancel",
                       !.c = incomingChannel, !.tags = {g}]}
    ELSE {}

\* a caller's unsubscribe(g), or the handle subscribe() number g returned
UnsubscribeCall(g) ==
  /\ Event
  /\ tasks' = tasks (+) SetToBag(unsubscribe(g))
  /\ last' = [op |-> "unsubscribe",
              out |-> IF unsubscribe(g) = {} THEN "unknownConsumer" ELSE "called"]
  /\ UNCHANGED consumerTag
  /\ UNCHANGED <<conn, incomingChannel, outgoingChannel, consumers, conns, active,
                 subResult, pubResult, brokerConf, pubCh>>

\* lines 215-216: the broker confirmed the cancel; the mapping is deleted
CancelOk(r, g) ==
  /\ r.pc \in {"cancel", "drain"}
  /\ g \in r.tags
  /\ IsOpen(r.c)
  /\ active' = [active EXCEPT ![g] = IF @ = r.c THEN Null ELSE @]
  /\ consumers' = WithoutKey(consumers, g)
  /\ tasks' = AfterCancel(r, g)
  /\ UNCHANGED <<conn, incomingChannel, outgoingChannel, conns,
                 subResult, pubResult, brokerConf, pubCh, nevents>>
  /\ UNCHANGED api

allSettled(r, g) == Move(r, [r EXCEPT !.tags = r.tags \ {g}])

\* line 85: Promise.all rejects with the first unsubscribe() that rejects, which
\* ends the call waiting on it (lines 91-98 are not run); the cancels still
\* pending go on with nobody waiting for them
allRejected(r, g) ==
  LET rest == r.tags \ {g} IN
  IF rest = {} THEN Drop(r)
  ELSE Move(r, [r EXCEPT !.kind = "orphan", !.tags = rest])

\* line 215: the cancel rejects (channel null or closed); unsubscribe() throws,
\* and so does the disconnect() whose drain awaits it
CancelFail(r, g) ==
  /\ r.pc \in {"cancel", "drain"}
  /\ g \in r.tags
  /\ ~IsOpen(r.c)
  /\ tasks' = allRejected(r, g)
  /\ last' = IF r.kind = "disconnect"
               THEN [op |-> "disconnect", out |-> "rejected"] ELSE last
  /\ UNCHANGED <<conn, incomingChannel, outgoingChannel, consumers, conns, active,
                 subResult, pubResult, brokerConf, pubCh, nevents, consumerTag>>

\* ---- disconnect() (lines 78-99) ----------------------------------------------
disconnectCancelsLoop ==
  IF conn = Null
    THEN [r \in Pending \ Loops |-> tasks[r]]
    ELSE Put([Task EXCEPT !.kind = "disconnect", !.pc = "drain",
                          !.c = incomingChannel, !.tags = DOMAIN consumers,
                          !.snap = DOMAIN consumers])

disconnectUnguarded ==
  Put([Task EXCEPT !.kind = "disconnect", !.pc = "drain",
                   !.c = incomingChannel, !.tags = DOMAIN consumers,
                   !.snap = DOMAIN consumers])

\* lines 80-89: the not-connected check, then unsubscribe() is started for every
\* key of the registry and Promise.all is awaited; gives the pending calls
\* after the call (unchanged when disconnect() returned at once)
disconnect ==
  IF conn = Null
    THEN tasks
    ELSE Put([Task EXCEPT !.kind = "disconnect", !.pc = "drain",
                          !.c = incomingChannel, !.tags = DOMAIN consumers,
                          !.snap = DOMAIN consumers])

DisconnectCall ==
  /\ Event
  /\ tasks' = disconnect
  /\ last' = IF conn = Null THEN [op |-> "disconnect", out |-> "returned"] ELSE NoCall
  /\ UNCHANGED consumerTag
  /\ UNCHANGED <<conn, incomingChannel, outgoingChannel, consumers, conns, active,
                 subResult, pubResult, brokerConf, pubCh>>

disconnectKeepsObservers(cs) == cs

\* line 92: this.conn.removeAllListeners()
disconnectDetach(cs) == removeAllListeners(cs, conn)

drainedAtOnce(r) == TRUE

\* line 85: Promise.all lets disconnect() go on once no cancel is pending
drained(r) == r.tags = {}

\* lines 91-93: the drain is over; observers are detached and close() is awaited
\* (line 92 throws on a null conn, close() throws on a connection not open)
DisconnectClose(r) ==
  /\ r.kind = "disconnect"
  /\ r.pc = "drain"
  /\ drained(r)
  /\ IF conn = Null
       THEN /\ tasks' = Drop(r)
            /\ UNCHANGED conns
       ELSE IF ~IsOpen(conn)
         THEN /\ tasks' = Drop(r)
              /\ conns' = disconnectDetach(conns)
         ELSE /\ tasks' = Move(r, [r EXCEPT !.pc = "closing", !.c = conn, !.tags = {}])
              /\ conns' = [disconnectDetach(conns) EXCEPT ![conn].st = "closing"]
  /\ UNCHANGED <<conn, incomingChannel, outgoingChannel, consumers, active,
                 subResult, pubResult, brokerConf, pubCh, nevents>>
  /\ UNCHANGED api

\* the close handshake of a connection the bus asked to close has finished
CloseCompletes(c) ==
  /\ conns[c].st = "closing"
  /\ \E cb \in BOOLEAN : ConnectionClosed(c, cb)
  /\ UNCHANGED <<subResult, nevents>>
  /\ UNCHANGED api

\* lines 95-98: reset local state
disconnectReset ==
  [conn |-> Null, incomingChannel |-> Null, outgoingChannel |-> Null]

\* lines 93-99: close() resolved; local state is reset and disconnect() returns
DisconnectFinish(r) ==
  /\ r.kind = "disconnect"
  /\ r.pc = "closing"
  /\ r.c = Dead
  /\ conn' = disconnectReset.conn
  /\ incomingChannel' = disconnectReset.incomingChannel
  /\ outgoingChannel' = disconnectReset.outgoingChannel
  /\ tasks' = Drop(r)
  /\ UNCHANGED <<consumers, conns, active,
                 subResult, pubResult, brokerConf, pubCh, nevents>>
  /\ UNCHANGED api

\* ---- subscribe() (lines 162-200) ---------------------------------------------
\* lines 170-192: the not-connected check, a fresh consumerTag, consume() awaited
alreadyActiveOnRegistry == DOMAIN consumers # {}

\* lines 174-176: the test of this.consumerTag, a field this class never assigns
alreadyActive == consumerTag # Null

SubscribeCall(q) ==
  /\ Event
  /\ LET g == nevents + 1 IN
       IF conn = Null
         THEN /\ subResult' = [subResult EXCEPT ![g] = "notConnected"]
              /\ UNCHANGED tasks
         ELSE IF alreadyActive
           THEN /\ subResult' = [subResult EXCEPT ![g] = "alreadyActive"]
                /\ UNCHANGED tasks
           ELSE /\ subResult' = [subResult EXCEPT ![g] = "pending"]
                /\ tasks' = Put([Task EXCEPT !.kind = "subscribe", !.pc = "consume",
                                             !.c = incomingChannel, !.tag = g, !.q = q])
  /\ last' = NoCall
  /\ UNCHANGED <<conn, incomingChannel, outgoingChannel, consumers, conns, active,
                 pubResult, brokerConf, pubCh, consumerTag>>

\* lines 196-199: the finally block of subscribe(); ok tells whether consume()
\* resolved
subscribeFinally(g, q, ok) == WithKey(consumers, g, q)

\* lines 183-199: the broker accepted the consume request
ConsumeOk(r) ==
  /\ r.pc = "consume"
  /\ IsOpen(r.c)
  /\ active' = [active EXCEPT ![r.tag] = r.c]
  /\ consumers' = subscribeFinally(r.tag, r.q, TRUE)
  /\ subResult' = [subResult EXCEPT ![r.tag] = "ok"]
  /\ tasks' = Drop(r)
  /\ UNCHANGED <<conn, incomingChannel, outgoingChannel, conns,
                 pubResult, brokerConf, pubCh, nevents>>
  /\ UNCHANGED api

\* lines 183-199: consume() threw or rejected (channel null or closed)
ConsumeFail(r) ==
  /\ r.pc = "consume"
  /\ ~IsOpen(r.c)
  /\ consumers' = subscribeFinally(r.tag, r.q, FALSE)
  /\ subResult' = [subResult EXCEPT ![r.tag] = "failed"]
  /\ tasks' = Drop(r)
  /\ UNCHANGED <<conn, incomingChannel, outgoingChannel, conns, active,
                 pubResult, brokerConf, pubCh, nevents>>
  /\ UNCHANGED api

\* ---- publish() / sendToQueue() (lines 230-351) -------------------------------
handOffResolves == "resolved"

\* lines 272-285 / 338-350: state of the returned promise right after the
\* message was handed to the confirm channel
handOff == "pending"

\* ---- arguments of publish() / sendToQueue() ----
\* a JavaScript value by its type; n tells values of one type apart
Undefined == [t |-> "undefined", n |-> 0]
Nul == [t |-> "null", n |-> 0]
Num(n) == [t |-> "integer", n |-> n]
Frac(n) == [t |-> "fraction", n |-> n]
Str(n) == [t |-> "string", n |-> n]
Obj(n) == [t |-> "object", n |-> n]

isUndefined(v) == v.t = "undefined"
isString(v) == v.t = "string"
isInteger(v) == v.t = "integer"
\* lodash inRange(v, 1, 11) on a number
inRange(v) == 1 <= v.n /\ v.n < 11

\* the keys a props object may carry: the four the code reads and one it does not
Keys == {"priority", "messageId", "timestamp", "type", "appId"}
NoProps == [k \in Keys |-> Undefined]

\* the defaults of the destructuring at lines 244-249: uuid.v4() and Date.now()
Uuid == Str(0)
Now == Num(0)
orDefault(v, d) == IF isUndefined(v) THEN d ELSE v

\* lines 244-249 / 310-315
destructure(props) ==
  [type |-> props["type"],
   priority |-> orDefault(props["priority"], Num(1)),
   messageId |-> orDefault(props["messageId"], Uuid),
   timestamp |-> orDefault(props["timestamp"], Now)]

validateNil(a) ==
  IF a.message.t \in {"undefined", "null"} THEN "message"
  ELSE IF ~a.plain THEN "props"
  ELSE "ok"

\* lines 237-265 / 303-331: the argument checks in the order of the code; "ok" or
\* the argument the TypeError names
validate(a) ==
  IF isUndefined(a.message) THEN "message"
  ELSE IF ~a.plain THEN "props"
  ELSE LET d == destructure(a.props) IN
    IF ~isInteger(d.priority) THEN "priority"
    ELSE IF ~inRange(d.priority) THEN "priorityRange"
    ELSE IF ~isString(d.messageId) THEN "messageId"
    ELSE IF ~(isString(d.type) \/ isUndefined(d.type)) THEN "type"
    ELSE IF ~isInteger(d.timestamp) THEN "timestamp"
    ELSE "ok"

\* the arguments the caller passes: message bodies (an object, an explicit null,
\* none), props that pass the checks, props failing each check, a props that is
\* no plain object
Messages == {Obj(1), Nul}
GoodProps ==
  {NoProps,
   [NoProps EXCEPT !["type"] = Str(1), !["timestamp"] = Num(7), !["appId"] = Str(2),
                   !["priority"] = Num(10), !["messageId"] = Str(3)]}
BadProps ==
  {[NoProps EXCEPT ![k] = v] : k \in {"priority"}, v \in {Num(0), Num(11), Frac(1), Str(1), Nul}}
  \cup {[NoProps EXCEPT ![k] = v] : k \in {"messageId"}, v \in {Num(5), Nul}}
  \cup {[NoProps EXCEPT ![k] = v] : k \in {"timestamp"}, v \in {Frac(1), Str(1), Nul}}
  \cup {[NoProps EXCEPT ![k] = v] : k \in {"type"}, v \in {Num(5), Nul}}
Args ==
  {[message |-> b, plain |-> TRUE, props |-> p] :
      b \in Messages \cup {Undefined}, p \in GoodProps \cup BadProps}
  \cup {[message |-> Obj(1), plain |-> FALSE, props |-> NoProps]}

\* lines 268-285 / 334-350: the not-connected check, then the message goes to
\* this.outgoingChannel with the confirm callback (a null or closed channel
\* throws inside the promise executor, which rejects the promise)
send(m) ==
  IF conn = Null
    THEN /\ pubResult' = [pubResult EXCEPT ![m] = "notConnected"]
         /\ UNCHANGED <<brokerConf, pubCh>>
    ELSE IF ~IsOpen(outgoingChannel)
      THEN /\ pubResult' = [pubResult EXCEPT ![m] = "rejected"]
           /\ UNCHANGED <<brokerConf, pubCh>>
      ELSE /\ pubResult' = [pubResult EXCEPT ![m] = handOff]
           /\ brokerConf' = [brokerConf EXCEPT ![m] = "unconfirmed"]
           /\ pubCh' = [pubCh EXCEPT ![m] = outgoingChannel]

connectionCheckedFirst(m, a) ==
  IF conn = Null \/ validate(a) = "ok"
    THEN send(m)
    ELSE /\ pubResult' = [pubResult EXCEPT ![m] = "invalid"]
         /\ UNCHANGED <<brokerConf, pubCh>>

\* lines 237-285 / 303-350: the argument checks, then send
checkedSend(m, a) ==
  IF validate(a) # "ok"
    THEN /\ pubResult' = [pubResult EXCEPT ![m] = "invalid"]
         /\ UNCHANGED <<brokerConf, pubCh>>
    ELSE send(m)

publish(a) ==
  /\ Event
  /\ checkedSend(nevents + 1, a)
  /\ last' = NoCall
  /\ UNCHANGED <<conn, incomingChannel, outgoingChannel, consumers, conns, tasks,
                 active, subResult, consumerTag>>

sendToQueue(a) ==
  /\ Event
  /\ checkedSend(nevents + 1, a)
  /\ last' = NoCall
  /\ UNCHANGED <<conn, incomingChannel, outgoingChannel, consumers, conns, tasks,
                 active, subResult, consumerTag>>

\* the broker acks (ok) or nacks the message: the confirm callback runs
Confirm(m, ok) ==
  /\ brokerConf[m] = "unconfirmed"
  /\ brokerConf' = [brokerConf EXCEPT ![m] = IF ok THEN "ack" ELSE "nack"]
  /\ pubResult' = [pubResult EXCEPT ![m] = onConfirm(~ok)]
  /\ pubCh' = [pubCh EXCEPT ![m] = Null]
  /\ UNCHANGED <<conn, incomingChannel, outgoingChannel, consumers, conns, tasks,
                 active, subResult, nevents>>
  /\ UNCHANGED api

\* ---- topology helpers (lines 353-447) ------------------------------------------
\* lines 365-369, 381-385, 423-427, 442-446 with valid arguments: the
\* not-connected check, then the request goes to this.incomingChannel and its
\* promise is returned; gives the pending calls after the call
topologyUnchecked ==
  Put([Task EXCEPT !.kind = "topology", !.pc = "rpc", !.c = incomingChannel])

topology ==
  IF conn = Null
    THEN tasks
    ELSE Put([Task EXCEPT !.kind = "topology", !.pc = "rpc", !.c = incomingChannel])

TopologyCall ==
  /\ Event
  /\ tasks' = topology
  /\ last' = [op |-> "topology", out |-> IF conn = Null THEN "notConnected" ELSE "called"]
  /\ UNCHANGED <<conn, incomingChannel, outgoingChannel, consumers, conns, active,
                 subResult, pubResult, brokerConf, pubCh, consumerTag>>

assertExchange == TopologyCall
assertQueue == TopologyCall
bindQueue == TopologyCall
unbindQueue == TopologyCall

\* the broker answered a topology request
RpcOk(r) ==
  /\ r.pc = "rpc"
  /\ IsOpen(r.c)
  /\ tasks' = Drop(r)
  /\ UNCHANGED <<conn, incomingChannel, outgoingChannel, consumers, conns, active,
                 subResult, pubResult, brokerConf, pubCh, nevents>>
  /\ UNCHANGED api

\* a topology request throws or rejects (channel null or closed)
RpcFail(r) ==
  /\ r.pc = "rpc"
  /\ ~IsOpen(r.c)
  /\ tasks' = Drop(r)
  /\ UNCHANGED <<conn, incomingChannel, outgoingChannel, consumers, conns, active,
                 subResult, pubResult, brokerConf, pubCh, nevents>>
  /\ UNCHANGED api

boundToAny(q) == DOMAIN consumers

\* lines 403-404: the registry entries whose queue is q
boundTo(q) == {g \in DOMAIN consumers : consumers[g] = q}

\* lines 397-406: the not-connected check, then unsubscribe() is started for
\* every registration of the queue and Promise.all is awaited
deleteQueue(q) ==
  IF conn = Null
    THEN tasks
    ELSE Put([Task EXCEPT !.kind = "deleteQueue", !.pc = "drain",
                          !.c = incomingChannel, !.tags = boundTo(q),
                          !.snap = boundTo(q), !.q = q])

DeleteQueueCall(q) ==
  /\ Event
  /\ tasks' = deleteQueue(q)
  /\ last' = [op |-> "deleteQueue", out |-> IF conn = Null THEN "notConnected" ELSE "called"]
  /\ UNCHANGED <<conn, incomingChannel, outgoingChannel, consumers, conns, active,
                 subResult, pubResult, brokerConf, pubCh, consumerTag>>

\* lines 402-408: the drain is over; the delete request goes to
\* this.incomingChannel
DeleteQueueIssue(r) ==
  /\ r.kind = "deleteQueue"
  /\ r.pc = "drain"
  /\ drained(r)
  /\ tasks' = Move(r, [r EXCEPT !.pc = "rpc", !.c = incomingChannel])
  /\ UNCHANGED <<conn, incomingChannel, outgoingChannel, consumers, conns, active,
                 subResult, pubResult, brokerConf, pubCh, nevents>>
  /\ UNCHANGED api

\* ---- unsubscribeAll() ------------------------------------------------------------
\* the class (lines 15-471) defines no unsubscribeAll: the call is a TypeError,
\* "bus.unsubscribeAll is not a function"
unsubscribeAll ==
  /\ Event
  /\ last' = [op |-> "unsubscribeAll", out |-> "notAFunction"]
  /\ UNCHANGED <<conn, incomingChannel, outgoingChannel, consumers, conns, tasks,
                 active, subResult, pubResult, brokerConf, pubCh, consumerTag>>

\* ---- the system ----------------------------------------------------------------
Next ==
  \/ ConnectCall /\ Quiet
  \/ DisconnectCall /\ Quiet
  \/ \E q \in Queues : SubscribeCall(q) /\ Quiet
  \/ \E g \in CallIds : UnsubscribeCall(g) /\ Quiet
  \/ \E a \in Args : publish(a) /\ Quiet
  \/ \E a \in Args : sendToQueue(a) /\ Quiet
  \/ assertExchange /\ Quiet
  \/ assertQueue /\ Quiet
  \/ bindQueue /\ Quiet
  \/ unbindQueue /\ Quiet
  \/ \E q \in Queues : DeleteQueueCall(q) /\ Quiet
  \/ unsubscribeAll /\ Quiet
  \/ \E r \in Pending : RpcOk(r) /\ Quiet
  \/ \E r \in Pending : RpcFail(r) /\ Quiet
  \/ \E r \in Pending : DeleteQueueIssue(r) /\ Quiet
  \/ \E r \in Pending : AmqpAccept(r) /\ Quiet
  \/ \E r \in Pending : AmqpReject(r) /\ Quiet
  \/ \E r \in Pending : CreateChannelOk(r) /\ Quiet
  \/ \E r \in Pending : CreateConfirmChannelOk(r) /\ Quiet
  \/ \E r \in Pending : PrefetchOk(r) /\ Quiet
  \/ \E r \in Pending : ChannelRpcRejected(r) /\ Quiet
  \/ \E r \in Pending : LoopAttempt(r) /\ Quiet
  \/ \E r \in Pending : DisconnectClose(r) /\ Quiet
  \/ \E r \in Pending : DisconnectFinish(r) /\ Quiet
  \/ \E r \in Pending : ConsumeOk(r) /\ Quiet
  \/ \E r \in Pending : ConsumeFail(r) /\ Quiet
  \/ \E r \in Pending, g \in CallIds : CancelOk(r, g) /\ Quiet
  \/ \E r \in Pending, g \in CallIds : CancelFail(r, g) /\ Quiet
  \/ \E c \in ConnIds : Fault(c) /\ Quiet
  \/ \E c \in ConnIds : CloseCompletes(c) /\ Quiet
  \/ \E m \in CallIds, ok \in BOOLEAN : Confirm(m, ok) /\ Quiet

Spec == Init /\ [][Next]_vars

\* the bus after a connect() that completed: one open connection with its
\* observers attached, both channels on it, nothing pending
Connected ==
  /\ conn = 1
  /\ incomingChannel = 1
  /\ outgoingChannel = 1
  /\ consumers = [g \in {} |-> "q1"]
  /\ conns = [c \in ConnIds |-> IF c = 1 THEN [st |-> "open", lis |-> TRUE] ELSE ClosedConn]
  /\ tasks = EmptyBag
  /\ active = [g \in CallIds |-> Null]
  /\ subResult = [g \in CallIds |-> "none"]
  /\ pubResult = [m \in CallIds |-> "none"]
  /\ brokerConf = [m \in CallIds |-> "none"]
  /\ pubCh = [m \in CallIds |-> Null]
  /\ nevents = 0
  /\ last = NoCall
  /\ consumerTag = Null

ConnectedInit == Connected /\ NoTraffic

ConnectedSpec == ConnectedInit /\ [][Next]_vars

\* the timer of the retry loop fires, and a broker that is asked again and
\* again accepts a connection of the loop in the end
LiveSpec ==
  /\ Spec
  /\ WF_vars(\E r \in Pending : LoopAttempt(r) /\ Quiet)
  /\ SF_vars(\E r \in Loops : AmqpAccept(r) /\ Quiet)

\* the pool of connection identifiers never runs out
PoolOk == \E c \in ConnIds : ~InUse(c)

\* ---- messages: encrypt, the broker's queues, the listeners, done ------------
\* A string is the sequence of its characters: "a" is a letter of one UTF-8
\* byte, "E" a letter of two, Replacement is U+FFFD; a byte is told by its
\* character and its place in it.  A string payload is a value of its own type.
Text(s) == [t |-> "text", n |-> 0, s |-> s]
Replacement == "?"
Letters == {"a", "E", Replacement}
Digits == <<"1", "2", "3", "4", "5", "6", "7", "8", "9">>
Width(c) == IF c = "E" THEN 2 ELSE IF c = Replacement THEN 3 ELSE 1

\* Buffer.from(str, 'utf8') and cipher.update(str, 'utf8') read a string
RECURSIVE utf8(_)
utf8(str) ==
  IF str = <<>> THEN <<>>
  ELSE [i \in 1..Width(Head(str)) |-> [of |-> Head(str), i |-> i]] \o utf8(Tail(str))

\* buf.toString('utf8'), which Array.prototype.join applies to a Buffer, and
\* decipher.final('utf8'): each decodes its own bytes, and a byte that is no
\* whole character there becomes U+FFFD
RECURSIVE toString(_)
toString(buf) ==
  IF buf = <<>> THEN <<>>
  ELSE LET b == Head(buf)
           w == Width(b.of)
           whole == /\ b.i = 1
                    /\ Len(buf) >= w
                    /\ \A j \in 1..w : buf[j] = [of |-> b.of, i |-> j]
       IN IF whole THEN <<b.of>> \o toString(SubSeq(buf, w + 1, Len(buf)))
          ELSE <<Replacement>> \o toString(Tail(buf))

\* JSON.stringify of a payload: a string in quotes ("q"), an object, a number,
\* null (also for a number that is no JSON number)
stringify(v) ==
  CASE v.t = "text" -> <<"q">> \o v.s \o <<"q">>
    [] v.t = "object" -> <<"{", Digits[v.n], "}">>
    [] v.t = "integer" -> <<Digits[v.n]>>
    [] v.t = "null" \/ (v.t = "fraction" /\ v.n = 0) -> <<"n", "u", "l", "l">>

\* what JSON.parse throws on a text that is no JSON, and decipher.final() on
\* bytes that were not encrypted with its key
Failure == [t |-> "throws", n |-> 0]

\* JSON.parse
parse(str) ==
  LET digit(c) == \E i \in DOMAIN Digits : Digits[i] = c
      number(c) == CHOOSE i \in DOMAIN Digits : Digits[i] = c
  IN
  IF str = <<"n", "u", "l", "l">> THEN Nul
  ELSE IF Len(str) = 1 /\ digit(str[1]) THEN Num(number(str[1]))
  ELSE IF Len(str) = 3 /\ str[1] = "{" /\ str[3] = "}" /\ digit(str[2])
    THEN Obj(number(str[2]))
  ELSE IF /\ Len(str) >= 2
          /\ str[1] = "q" /\ str[Len(str)] = "q"
          /\ \A i \in 2..(Len(str) - 1) : str[i] \in Letters
    THEN Text(SubSeq(str, 2, Len(str) - 1))
  ELSE Failure

\* messages other publishers left in the queues
Foreign == {MaxIds + 1, MaxIds + 2}

MaxLetters == 15

\* payloads JSON can carry: an object, null, a number, and strings of letters
\* of one byte with or without a letter of two bytes at their end
CodecPayloads ==
  {Obj(1), Nul, Num(7)}
  \cup {Text([i \in 1..k |-> "a"]) : k \in {0, 1, MaxLetters}}
  \cup {Text([i \in 1..k |-> "a"] \o <<"E">>) : k \in 0..MaxLetters}

\* every payload encrypt() is given, and the bytes of its serialisation
Payloads == Messages \cup CodecPayloads \cup {Obj(m) : m \in Foreign}
serialised == [v \in Payloads |-> utf8(stringify(v))]

\* lines 125-134 with key as this.encryptionKey: the bytes of the serialised
\* payload, as they are or under the aes128 cipher of the key
cipher(key, payload) ==
  IF key = NoKey
    THEN [enc |-> "utf8", key |-> NoKey, bytes |-> serialised[payload]]
    ELSE [enc |-> "aes128", key |-> key, bytes |-> serialised[payload]]

encrypt(payload) == cipher(encryptionKey, payload)

\* the block size of the aes128 cipher of lines 130 and 147
BlockBytes == 16

\* lines 148-151: decipher.update(buf, 'utf8') is given a Buffer and no output
\* encoding, so it returns a Buffer with the blocks before the last one;
\* decipher.final('utf8') returns the rest as a string; join('') makes a
\* string of each part on its own
deciphered(plain) ==
  LET cut == (Len(plain) \div BlockBytes) * BlockBytes
  IN toString(SubSeq(plain, 1, cut)) \o toString(SubSeq(plain, cut + 1, Len(plain)))

\* lines 142-154
\* JSON.parse of the string decrypt() makes of each buffer: as a whole
\* (line 144), and through the decipher (lines 147-153)
readWhole == [b \in {serialised[v] : v \in Payloads} |-> parse(toString(b))]
readDeciphered == [b \in {serialised[v] : v \in Payloads} |-> parse(deciphered(b))]

\* lines 142-154
decrypt(buf) ==
  IF encryptionKey = NoKey
    THEN IF buf.enc = "utf8" THEN readWhole[buf.bytes] ELSE Failure
    ELSE IF buf.enc = "aes128" /\ buf.key = encryptionKey
           THEN readDeciphered[buf.bytes] ELSE Failure

optionsWithAllProps(a) == [k \in Keys |-> IF k \in {"priority", "messageId", "timestamp"}
                                            THEN destructure(a.props)[k] ELSE a.props[k]]

optionsFromProps(a) == [k \in {"messageId", "type", "priority", "timestamp"} |-> a.props[k]]

\* lines 278-283 / 344-349: the options handed to the channel with the message
options(a) ==
  LET d == destructure(a.props)
  IN [k \in {"messageId", "type", "priority", "timestamp"} |-> d[k]]

omitEvery(f) == [k \in {} |-> f[k]]

\* line 186: omitBy(msg.properties, isUndefined)
omitUndefined(f) == [k \in {j \in DOMAIN f : ~isUndefined(f[j])} |-> f[k]]

\* the process ended on an 'error' event nobody listens to
Up == settled.how # "channelError"

\* lines 272-285 / 338-350, the content: what goes to the channel for queue q
\* when the call hands the message over
Submit(q, a) ==
  LET m == nevents + 1 IN
  /\ sent' = IF pubResult'[m] = handOff
               THEN WithKey(sent, m, [q |-> q, content |-> encrypt(a.message),
                                      options |-> options(a), args |-> a])
               ELSE sent
  /\ UNCHANGED <<encryptionKey, queued, cons, dtag, unacked, calls, settled>>

\* the broker took message m into its queue before it acked it
Enqueue(m, ok) ==
  /\ queued' = IF ok THEN [queued EXCEPT ![sent[m].q] = Append(@, m)] ELSE queued
  /\ UNCHANGED <<encryptionKey, sent, cons, dtag, unacked, calls, settled>>

\* lines 183-192, broker side: the consume request names the queue; the
\* prefetch of line 71 limits a consumer that starts after it was requested
Consuming(q) ==
  LET g == nevents + 1
      early == \E r \in Pending : r.pc = "cchan" /\ r.c = incomingChannel
  IN
  /\ cons' = IF subResult'[g] = "pending"
               THEN [cons EXCEPT ![g] = [q |-> q, limit |-> IF early THEN 0 ELSE 1]]
               ELSE cons
  /\ UNCHANGED <<encryptionKey, sent, queued, dtag, unacked, calls, settled>>

\* the delivery tags of a new channel start at 1
FreshTags ==
  /\ dtag' = [dtag EXCEPT ![NewConn] = 0]
  /\ UNCHANGED <<encryptionKey, sent, queued, cons, unacked, calls, settled>>

RECURSIVE InTagOrder(_)
InTagOrder(ds) ==
  IF ds = {} THEN <<>>
  ELSE LET d == CHOOSE x \in ds : \A y \in ds : x.tag <= y.tag
       IN <<d.m>> \o InTagOrder(ds \ {d})

\* the broker puts what was unsettled on a closed channel back in front; the
\* messages the consume callback got from that channel now name a closed channel
Requeue(c) ==
  /\ queued' = [q \in Queues |->
                  InTagOrder({d \in unacked : d.c = c /\ d.q = q}) \o queued[q]]
  /\ unacked' = {d \in unacked : d.c # c}
  /\ calls' = {[k EXCEPT !.c = Gone(k.c, c)] : k \in calls}
  /\ UNCHANGED <<encryptionKey, sent, cons, dtag, settled>>

\* a deleted queue loses its messages and its consumers; the channels still
\* know the tags of its unsettled deliveries, which have no queue to go back to
Purge(r) ==
  /\ queued' = IF r.kind = "deleteQueue" THEN [queued EXCEPT ![r.q] = <<>>] ELSE queued
  /\ unacked' = IF r.kind = "deleteQueue"
                  THEN {IF d.q = r.q THEN [d EXCEPT !.q = "-"] ELSE d : d \in unacked}
                  ELSE unacked
  /\ cons' = IF r.kind = "deleteQueue"
               THEN [g \in CallIds |-> IF cons[g].q = r.q /\ active[g] # Null
                                         THEN NoConsumer ELSE cons[g]]
               ELSE cons
  /\ UNCHANGED <<encryptionKey, sent, dtag, calls, settled>>

\* lines 183-188: the broker delivers the head of the queue to consumer g, and
\* the consume callback decodes it and invokes the listener (no invocation when
\* decrypt throws)
Deliver(g) ==
  /\ IsOpen(active[g])
  /\ LET c == active[g]
         q == cons[g].q
     IN
     /\ q \in Queues
     /\ queued[q] # <<>>
     /\ cons[g].limit = 0 \/ ~\E d \in unacked : d.g = g /\ d.c = c
     /\ LET m == Head(queued[q])
            tag == dtag[c] + 1
            n == Cardinality(calls) + 1
            msg == decrypt(sent[m].content)
        IN
        /\ queued' = [queued EXCEPT ![q] = Tail(@)]
        /\ dtag' = [dtag EXCEPT ![c] = tag]
        /\ unacked' = unacked \cup {[c |-> c, tag |-> tag, m |-> m, q |-> q, g |-> g, n |-> n]}
        /\ calls' = calls \cup
             {[n |-> n, g |-> g, m |-> m, tag |-> tag, c |-> c, msg |-> msg,
               props |-> omitUndefined(sent[m].options),
               done |-> msg = Failure]}
  /\ UNCHANGED <<encryptionKey, sent, cons, settled, nevents>>
  /\ UNCHANGED bus

\* line 187: ack and nack go to what this.incomingChannel is now, with the
\* delivery tag of the message
ackTarget(k) == {d \in unacked : d.c = incomingChannel /\ d.tag = k.tag}

\* line 187: the listener of invocation k calls done(err).  A null or closed
\* channel throws; a tag the channel does not know is a protocol error.
Done(k, err) ==
  /\ k \in calls
  /\ ~k.done
  /\ IF err THEN Event ELSE UNCHANGED nevents
  /\ calls' = (calls \ {k}) \cup {[k EXCEPT !.done = TRUE]}
  /\ IF ~IsOpen(incomingChannel)
       THEN UNCHANGED <<queued, unacked, settled>>
       ELSE IF ackTarget(k) = {}
         THEN /\ settled' = [by |-> k.n, n |-> Null, how |-> "channelError"]
              /\ UNCHANGED <<queued, unacked>>
         ELSE LET d == CHOOSE x \in ackTarget(k) : TRUE IN
              /\ unacked' = unacked \ {d}
              /\ queued' = IF err /\ d.q \in Queues
                             THEN [queued EXCEPT ![d.q] = <<d.m>> \o @] ELSE queued
              /\ settled' = [by |-> k.n, n |-> d.n, how |-> IF err THEN "nack" ELSE "ack"]
  /\ UNCHANGED <<encryptionKey, sent, cons, dtag>>
  /\ UNCHANGED bus

DeliveryNext ==
  \/ Up /\ ConnectCall /\ Quiet
  \/ Up /\ DisconnectCall /\ Quiet
  \/ \E q \in Queues : Up /\ SubscribeCall(q) /\ Consuming(q)
  \/ \E g \in CallIds : Up /\ UnsubscribeCall(g) /\ Quiet
  \/ \E a \in Args, q \in Queues : Up /\ publish(a) /\ Submit(q, a)
  \/ \E a \in Args, q \in Queues : Up /\ sendToQueue(a) /\ Submit(q, a)
  \/ \E q \in Queues : Up /\ DeleteQueueCall(q) /\ Quiet
  \/ \E r \in Pending : Up /\ RpcOk(r) /\ Purge(r)
  \/ \E r \in Pending : Up /\ RpcFail(r) /\ Quiet
  \/ \E r \in Pending : Up /\ DeleteQueueIssue(r) /\ Quiet
  \/ \E r \in Pending : Up /\ AmqpAccept(r) /\ FreshTags
  \/ \E r \in Pending : Up /\ AmqpReject(r) /\ Quiet
  \/ \E r \in Pending : Up /\ CreateChannelOk(r) /\ Quiet
  \/ \E r \in Pending : Up /\ CreateConfirmChannelOk(r) /\ Quiet
  \/ \E r \in Pending : Up /\ PrefetchOk(r) /\ Quiet
  \/ \E r \in Pending : Up /\ ChannelRpcRejected(r) /\ Quiet
  \/ \E r \in Pending : Up /\ LoopAttempt(r) /\ Quiet
  \/ \E r \in Pending : Up /\ DisconnectClose(r) /\ Quiet
  \/ \E r \in Pending : Up /\ DisconnectFinish(r) /\ Quiet
  \/ \E r \in Pending : Up /\ ConsumeOk(r) /\ Quiet
  \/ \E r \in Pending : Up /\ ConsumeFail(r) /\ Quiet
  \/ \E r \in Pending, g \in CallIds : Up /\ CancelOk(r, g) /\ Quiet
  \/ \E r \in Pending, g \in CallIds : Up /\ CancelFail(r, g) /\ Quiet
  \/ \E c \in ConnIds : Up /\ Fault(c) /\ Requeue(c)
  \/ \E c \in ConnIds : Up /\ CloseCompletes(c) /\ Requeue(c)
  \/ \E m \in CallIds, ok \in BOOLEAN : Up /\ Confirm(m, ok) /\ Enqueue(m, ok)
  \/ \E g \in CallIds : Up /\ Deliver(g)
  \/ \E k \in calls, err \in BOOLEAN : Up /\ Done(k, err)

\* a connected bus, with or without an encryption key, and one message of
\* another publisher waiting in each queue: the one in q1 made with the key of
\* the bus, the one in q2 with a key the bus does not have
DeliveryInit ==
  /\ Connected
  /\ encryptionKey \in {NoKey, "k1"}
  /\ sent = [m \in Foreign |->
               [q |-> IF m = MaxIds + 1 THEN "q1" ELSE "q2",
                content |-> cipher(IF m = MaxIds + 1 THEN encryptionKey ELSE "k2", Obj(m)),
                options |-> options([message |-> Obj(m), plain |-> TRUE, props |-> NoProps]),
                args |-> [message |-> Obj(m), plain |-> TRUE, props |-> NoProps]]]
  /\ queued = [q \in Queues |-> IF q = "q1" THEN <<MaxIds + 1>> ELSE <<MaxIds + 2>>]
  /\ cons = [g \in CallIds |-> NoConsumer]
  /\ dtag = [c \in ConnIds |-> 0]
  /\ unacked = {}
  /\ calls = {}
  /\ settled = NoSettle

DeliverySpec == DeliveryInit /\ [][DeliveryNext]_vars

\* the broker delivers what it can deliver, and a listener that was invoked
\* calls done in the end
DeliveryLiveSpec ==
  /\ DeliverySpec
  /\ WF_vars(\E g \in CallIds : Up /\ Deliver(g))
  /\ WF_vars(\E k \in calls : Up /\ Done(k, FALSE))

\* ---- the constructor, encrypt() and decrypt() called on their own -------------
MaxCodecCalls == 2

\* ---- constructor (lines 23-46), called with any argument ---------------------
Bool == [t |-> "boolean", n |-> 1]
Arr == [t |-> "array", n |-> 0]

\* typeOf(v) of the messages of lines 25, 34 and 37
typeOf(v) == IF v.t \in {"integer", "fraction"} THEN "number"
             ELSE IF v.t = "text" THEN "string" ELSE v.t

isPlainObject(v) == v.t = "object"

\* what new MessageBus(...) is called with: the argument, and the url and
\* encryptionKey it holds when it is an object
CtorArgs ==
  {[v |-> x, url |-> Undefined, encryptionKey |-> Undefined] :
      x \in {Undefined, Num(3), Str(1), Nul, Bool, Arr}}
  \cup {[v |-> Obj(1), url |-> u, encryptionKey |-> k] :
          u \in {Str(1), Undefined, Num(5)},
          k \in {Undefined, Nul, Str(1), Str(2), Num(3), Bool}}

\* this.encryptionKey for the value the constructor stored
keyOf(v) == IF v.t = "string" THEN (IF v.n = 1 THEN "k1" ELSE "k2") ELSE NoKey

\* no bus was constructed yet
Unmade == "unmade"

ctorAnyObject(p) ==
  IF p.v.t \notin {"object", "array"} THEN [out |-> "props", received |-> typeOf(p.v)]
  ELSE [out |-> "ok", received |-> "-"]

\* lines 24-38: the checks of the constructor; "ok", or the property the
\* TypeError names and the kind it reports
ctorCheck(p) ==
  IF ~isPlainObject(p.v) THEN [out |-> "props", received |-> typeOf(p.v)]
  ELSE IF ~isString(p.url) THEN [out |-> "url", received |-> typeOf(p.url)]
  ELSE LET k == orDefault(p.encryptionKey, Nul) IN
    IF ~(isString(k) \/ k.t = "null")
      THEN [out |-> "encryptionKey", received |-> typeOf(k)]
      ELSE [out |-> "ok", received |-> "-"]

\* before new MessageBus(...): there is no object and its fields hold nothing
NoBus ==
  /\ encryptionKey = Unmade
  /\ conn = Dead
  /\ incomingChannel = Dead
  /\ outgoingChannel = Dead
  /\ consumers = [g \in {} |-> "q1"]
  /\ conns = [c \in ConnIds |-> ClosedConn]
  /\ tasks = EmptyBag
  /\ active = [g \in CallIds |-> Null]
  /\ subResult = [g \in CallIds |-> "none"]
  /\ pubResult = [m \in CallIds |-> "none"]
  /\ brokerConf = [m \in CallIds |-> "none"]
  /\ pubCh = [m \in CallIds |-> Null]
  /\ nevents = 0
  /\ last = NoCall
  /\ consumerTag = Null

\* lines 23-46: new MessageBus(p) throws, or sets the fields of the new bus
Construct(p) ==
  LET c == ctorCheck(p) IN
  /\ encryptionKey = Unmade
  /\ last = NoCall
  /\ last' = [op |-> "constructor", out |-> c.out, received |-> c.received]
  /\ IF c.out = "ok"
       THEN /\ encryptionKey' = keyOf(orDefault(p.encryptionKey, Nul))
            /\ consumers' = [g \in {} |-> "q1"]
            /\ conn' = Null
            /\ incomingChannel' = Null
            /\ outgoingChannel' = Null
       ELSE UNCHANGED <<encryptionKey, consumers, conn, incomingChannel, outgoingChannel>>
  /\ UNCHANGED <<conns, tasks, active, subResult, pubResult, brokerConf, pubCh,
                 nevents, consumerTag>>
  /\ UNCHANGED <<sent, queued, cons, dtag, unacked, calls, settled>>

CodecInit ==
  /\ NoBus
  /\ sent = [m \in {} |-> Null]
  /\ queued = [q \in Queues |-> <<>>]
  /\ cons = [g \in CallIds |-> NoConsumer]
  /\ dtag = [c \in ConnIds |-> 0]
  /\ unacked = {}
  /\ calls = {}
  /\ settled = NoSettle

\* bus.encrypt(p): the buffer it returns is kept as message m
EncryptCall(p) ==
  LET m == Cardinality(DOMAIN sent) + 1
      a == [message |-> p, plain |-> TRUE, props |-> NoProps]
  IN
  /\ encryptionKey # Unmade
  /\ m <= MaxCodecCalls
  /\ sent' = WithKey(sent, m, [q |-> "-", content |-> encrypt(p),
                               options |-> options(a), args |-> a])
  /\ UNCHANGED <<encryptionKey, queued, cons, dtag, unacked, calls, settled, nevents>>
  /\ UNCHANGED bus

\* bus.decrypt(buf) on the buffer kept as message m: what it returns, or that
\* it threw, is kept as a call
DecryptCall(m) ==
  /\ m \in DOMAIN sent
  /\ ~\E k \in calls : k.m = m
  /\ calls' = calls \cup
       {[n |-> Cardinality(calls) + 1, g |-> Null, m |-> m, tag |-> 0, c |-> Null,
         msg |-> decrypt(sent[m].content),
         props |-> omitUndefined(sent[m].options), done |-> TRUE]}
  /\ UNCHANGED <<encryptionKey, sent, queued, cons, dtag, unacked, settled, nevents>>
  /\ UNCHANGED bus

CodecNext ==
  \/ \E p \in CtorArgs : Construct(p)
  \/ \E p \in CodecPayloads : EncryptCall(p)
  \/ \E m \in 1..MaxCodecCalls : DecryptCall(m)

CodecSpec == CodecInit /\ [][CodecNext]_vars

\* ---- the single-subscription variant (src/unnamed/part_002) ------------------
\* Its subscriberChannel and publisherChannel are kept in incomingChannel and
\* outgoingChannel.  It attaches no observer to the connection and has no
\* reconnect loop.  A request on a handle that is null, closed or closing throws
\* in the call itself, and a connection that closes rejects the requests
\* pending on it as it closes; the continuations run before any other event.
SingleEvent ==
  /\ nevents < SingleMaxEvents
  /\ nevents' = nevents + 1

SingleRejected(c) == {r \in Pending : r.c = c}

\* what is left pending once connection c has closed
SingleSurvivors(c) ==
  LET rest == Pending \ SingleRejected(c) IN [r \in rest |-> tasks[r]]

\* lines 161-164: the catch block of a subscribe() whose consume request failed
singleCatch(c) ==
  IF \E r \in SingleRejected(c) : r.kind = "subscribe" THEN Null ELSE consumerTag

\* lines 79-83: the already-connected check, then amqp.connect() is awaited
SingleConnectCall ==
  /\ SingleEvent
  /\ tasks' = IF conn # Null THEN tasks
              ELSE Put([Task EXCEPT !.kind = "connect", !.pc = "amqp"])
  /\ last' = NoCall
  /\ UNCHANGED <<conn, incomingChannel, outgoingChannel, consumers, conns, active,
                 subResult, pubResult, brokerConf, pubCh, consumerTag>>

\* lines 83-84: amqp.connect() resolved; conn is stored, createChannel() awaited
SingleAmqpAccept(r) ==
  /\ r.pc = "amqp"
  /\ \E c \in ConnIds : ~InUse(c)
  /\ LET c == NewConn IN
       /\ conns' = [conns EXCEPT ![c] = [st |-> "open", lis |-> FALSE]]
       /\ conn' = c
       /\ tasks' = Move(r, [r EXCEPT !.pc = "chan", !.c = c])
  /\ UNCHANGED <<incomingChannel, outgoingChannel, consumers, active,
                 subResult, pubResult, brokerConf, pubCh, nevents>>
  /\ UNCHANGED api

\* line 83: amqp.connect() rejected
SingleAmqpReject(r) ==
  /\ r.pc = "amqp"
  /\ tasks' = Drop(r)
  /\ UNCHANGED <<conn, incomingChannel, outgoingChannel, consumers, conns, active,
                 subResult, pubResult, brokerConf, pubCh, nevents>>
  /\ UNCHANGED api

\* lines 84-90: a request of connect() resolved: the channel is stored and the
\* next request goes out on what this.conn or this.subscriberChannel is now
SingleConnectStep(r) ==
  /\ r.kind = "connect"
  /\ r.pc \in {"chan", "cchan", "assert", "prefetch"}
  /\ IsOpen(r.c)
  /\ incomingChannel' = IF r.pc = "chan" THEN r.c ELSE incomingChannel
  /\ outgoingChannel' = IF r.pc = "cchan" THEN r.c ELSE outgoingChannel
  /\ tasks' =
       LET on == IF r.pc = "chan" THEN conn ELSE incomingChannel'
           then == CASE r.pc = "chan" -> "cchan"
                     [] r.pc = "cchan" -> "assert"
                     [] r.pc = "assert" -> "prefetch"
                     [] OTHER -> "done"
       IN IF then = "done" \/ ~IsOpen(on)
            THEN Drop(r)
            ELSE Move(r, [r EXCEPT !.pc = then, !.c = on])
  /\ UNCHANGED <<conn, consumers, conns, active,
                 subResult, pubResult, brokerConf, pubCh, nevents>>
  /\ UNCHANGED api

\* lines 125-138: the not-connected check, the already-active check, then the
\* tag is stored and consume() is awaited (lines 161-164 when it throws at once)
SingleSubscribeCall ==
  /\ SingleEvent
  /\ LET g == nevents + 1 IN
       IF incomingChannel = Null
         THEN /\ subResult' = [subResult EXCEPT ![g] = "notConnected"]
              /\ UNCHANGED <<tasks, consumerTag>>
         ELSE IF consumerTag # Null
           THEN /\ subResult' = [subResult EXCEPT ![g] = "alreadyActive"]
                /\ UNCHANGED <<tasks, consumerTag>>
           ELSE IF ~IsOpen(incomingChannel)
             THEN /\ subResult' = [subResult EXCEPT ![g] = "failed"]
                  /\ UNCHANGED <<tasks, consumerTag>>
             ELSE /\ subResult' = [subResult EXCEPT ![g] = "pending"]
                  /\ consumerTag' = g
                  /\ tasks' = Put([Task EXCEPT !.kind = "subscribe", !.pc = "consume",
                                               !.c = incomingChannel, !.tag = g])
  /\ last' = NoCall
  /\ UNCHANGED <<conn, incomingChannel, outgoingChannel, consumers, conns, active,
                 pubResult, brokerConf, pubCh>>

\* lines 138-160: the broker accepted the consume request; the handle is returned
SingleConsumeOk(r) ==
  /\ r.kind = "subscribe"
  /\ r.pc = "consume"
  /\ IsOpen(r.c)
  /\ active' = [active EXCEPT ![r.tag] = r.c]
  /\ subResult' = [subResult EXCEPT ![r.tag] = "ok"]
  /\ tasks' = Drop(r)
  /\ UNCHANGED <<conn, incomingChannel, outgoingChannel, consumers, conns,
                 pubResult, brokerConf, pubCh, nevents>>
  /\ UNCHANGED api

\* lines 157-158: the handle subscribe() number g returned is called; it cancels
\* what this.consumerTag is now, on what this.subscriberChannel is now
SingleHandleCall(g) ==
  /\ subResult[g] = "ok"
  /\ SingleEvent
  /\ tasks' = IF consumerTag = Null \/ ~IsOpen(incomingChannel)
                THEN tasks
                ELSE Put([Task EXCEPT !.kind = "handle", !.pc = "cancel",
                                      !.c = incomingChannel, !.tag = consumerTag])
  /\ last' = NoCall
  /\ UNCHANGED <<conn, incomingChannel, outgoingChannel, consumers, conns, active,
                 subResult, pubResult, brokerConf, pubCh, consumerTag>>

\* lines 99-109: the already-disconnected check; an active subscription is
\* cancelled first, else close() is awaited at once
SingleDisconnectCall ==
  /\ SingleEvent
  /\ IF conn = Null
       THEN UNCHANGED <<tasks, conns>>
       ELSE IF consumerTag # Null
         THEN /\ tasks' = IF IsOpen(incomingChannel)
                            THEN Put([Task EXCEPT !.kind = "disconnect", !.pc = "cancel",
                                                  !.c = incomingChannel, !.tag = consumerTag])
                            ELSE tasks
              /\ UNCHANGED conns
         ELSE IF IsOpen(conn)
           THEN /\ tasks' = Put([Task EXCEPT !.kind = "disconnect", !.pc = "closing",
                                             !.c = conn])
                /\ conns' = [conns EXCEPT ![conn].st = "closing"]
           ELSE UNCHANGED <<tasks, conns>>
  /\ last' = NoCall
  /\ UNCHANGED <<conn, incomingChannel, outgoingChannel, consumers, active,
                 subResult, pubResult, brokerConf, pubCh, consumerTag>>

\* lines 106 and 159: this.consumerTag = null
singleResetTag == Null

\* lines 105-109 and 158-159: the broker confirmed a cancel; consumerTag is
\* cleared; disconnect() goes on to close()
SingleCancelOk(r) ==
  /\ r.kind \in {"handle", "disconnect"}
  /\ r.pc = "cancel"
  /\ IsOpen(r.c)
  /\ active' = [active EXCEPT ![r.tag] = IF @ = r.c THEN Null ELSE @]
  /\ consumerTag' = singleResetTag
  /\ IF r.kind = "disconnect" /\ IsOpen(conn)
       THEN /\ tasks' = Move(r, [r EXCEPT !.pc = "closing", !.c = conn])
            /\ conns' = [conns EXCEPT ![conn].st = "closing"]
       ELSE /\ tasks' = Drop(r)
            /\ UNCHANGED conns
  /\ UNCHANGED <<conn, incomingChannel, outgoingChannel, consumers,
                 subResult, pubResult, brokerConf, pubCh, nevents, last>>

\* connection c is gone: every request pending on it rejects; a disconnect()
\* that awaited its close() resets the handles (lines 111-113) and returns
SingleClosed(c) ==
  LET closer == \E r \in SingleRejected(c) : r.kind = "disconnect" /\ r.pc = "closing" IN
  /\ conns' = [conns EXCEPT ![c] = ClosedConn]
  /\ active' = [g \in CallIds |-> IF active[g] = c THEN Null ELSE active[g]]
  /\ subResult' = [g \in CallIds |->
        IF \E r \in SingleRejected(c) : r.kind = "subscribe" /\ r.tag = g
          THEN "failed" ELSE subResult[g]]
  /\ consumerTag' = singleCatch(c)
  /\ tasks' = SingleSurvivors(c)
  /\ conn' = IF closer THEN Null ELSE Gone(conn, c)
  /\ incomingChannel' = IF closer THEN Null ELSE Gone(incomingChannel, c)
  /\ outgoingChannel' = IF closer THEN Null ELSE Gone(outgoingChannel, c)
  /\ UNCHANGED <<consumers, pubResult, brokerConf, pubCh, last>>

\* the broker or the network drops an open connection
SingleFault(c) ==
  /\ conns[c].st = "open"
  /\ SingleEvent
  /\ SingleClosed(c)

\* line 109: the close handshake finished
SingleCloseCompletes(c) ==
  /\ conns[c].st = "closing"
  /\ SingleClosed(c)
  /\ UNCHANGED nevents

SingleNext ==
  \/ SingleConnectCall /\ Quiet
  \/ SingleSubscribeCall /\ Quiet
  \/ \E g \in CallIds : SingleHandleCall(g) /\ Quiet
  \/ SingleDisconnectCall /\ Quiet
  \/ \E r \in Pending : SingleAmqpAccept(r) /\ Quiet
  \/ \E r \in Pending : SingleAmqpReject(r) /\ Quiet
  \/ \E r \in Pending : SingleConnectStep(r) /\ Quiet
  \/ \E r \in Pending : SingleConsumeOk(r) /\ Quiet
  \/ \E r \in Pending : SingleCancelOk(r) /\ Quiet
  \/ \E c \in ConnIds : SingleFault(c) /\ Quiet
  \/ \E c \in ConnIds : SingleCloseCompletes(c) /\ Quiet

SingleSpec == Init /\ [][SingleNext]_vars

\* ---- properties ------------------------------------------------------------------
Disconnects == {r \in Pending : r.kind = "disconnect"}

\* C1: in every reachable state, also between the awaited steps of connect(),
\* disconnect() and reconnect(), both channels are non-null if and only if
\* conn is non-null
ChannelsIffConn ==
  (incomingChannel # Null /\ outgoingChannel # Null) <=> (conn # Null)

\* C2: whenever conn is null the consumer registry is empty
RegistryEmptyWhenDisconnected ==
  conn = Null => DOMAIN consumers = {}

\* C3: the registry holds a consumerTag only once the broker accepted its
\* consume request; a subscribe() whose consume request failed leaves no entry
RegistryOnlyAcceptedConsumers ==
  \A g \in DOMAIN consumers : subResult[g] = "ok"

\* the connect() attempt of loop r returns without throwing: at once on a
\* non-null conn (line 55), or when its prefetch resolves (line 71)
AttemptSucceeds(r) ==
  \/ r.pc = "delay" /\ conn # Null
  \/ r.pc = "prefetch" /\ IsOpen(r.c)

LoopLeavesOnlyOnSuccess ==
  NLoops' < NLoops => \E r \in Loops : AttemptSucceeds(r) /\ tasks' = Drop(r)

LoopWaiting == conn = Null /\ \E r \in Loops : r.pc \in {"delay", "amqp"}

\* C4: the reconnect loop swallows every error of connect() and ends only
\* when an attempt succeeds; with a broker that accepts in the end, a bus
\* whose loop waits to connect eventually holds an open connection in conn
ReconnectLoopEventuallyConnects ==
  /\ [][LoopLeavesOnlyOnSuccess]_vars
  /\ LoopWaiting ~> IsOpen(conn)

\* C4 witness: a loop got its connection after the unexpected close
LoopReconnected ==
  \E r \in Loops : r.pc = "chan" /\ conn = r.c

\* C5: the reconnect loop starts only in a step in which a connection the bus
\* did not ask to close is dropped with its close observer attached; the
\* close() of disconnect() never starts it
ReconnectOnlyOnUnrequestedClose ==
  [][NLoops' > NLoops =>
       \E c \in ConnIds : /\ conns[c].st = "open"
                          /\ conns[c].lis
                          /\ conns'[c].st = "closed"
                          /\ nevents' = nevents + 1]_vars

\* C5 witness: the close() issued by disconnect() has completed and no loop runs
RequestedCloseCompleted ==
  /\ NLoops = 0
  /\ \E r \in Disconnects : r.pc = "closing" /\ r.c = Dead

\* C6: disconnect() has close() issued only when every registration it found
\* in the registry is unsubscribed, and on return conn and both channels are null
DisconnectDrainsThenResets ==
  /\ [](\A r \in Disconnects :
          r.pc = "closing" => r.snap \cap DOMAIN consumers = {})
  /\ [][\A r \in Disconnects :
          (r.pc = "closing" /\ tasks' = Drop(r)) =>
             (conn' = Null /\ incomingChannel' = Null /\ outgoingChannel' = Null)]_vars

\* C6 witness: close() was issued by a disconnect() that found registrations
ClosingAfterDrain ==
  \E r \in Disconnects : r.pc = "closing" /\ r.snap # {}

\* C7: the step in which the connection closes unexpectedly and the loop starts
\* leaves conn and both channels null, before any reconnect attempt
HandlesClearedOnUnexpectedClose ==
  [][NLoops' > NLoops =>
       (conn' = Null /\ incomingChannel' = Null /\ outgoingChannel' = Null)]_vars

\* a step of the caller: an API call, or a step of a pending disconnect();
\* the steps in which the broker finishes closing a connection are not the
\* caller's
CallerStep ==
  /\ \A c \in ConnIds : conns'[c].st = "closed" => conns[c].st = "closed"
  /\ \/ nevents' = nevents + 1
     \/ \E r \in Disconnects : r \notin Pending' \/ tasks'[r] # tasks[r]

\* C8: no call of the caller and no step of a disconnect() removes or changes
\* a running reconnect loop; a loop ends only by its own successful attempt
LoopNotCancellable ==
  [][/\ CallerStep => \A r \in Loops : r \in Pending' /\ tasks'[r] >= tasks[r]
     /\ LoopLeavesOnlyOnSuccess]_vars

\* C8 witness: a disconnect() has issued close() while a loop is still retrying
DisconnectWhileLooping ==
  NLoops > 0 /\ \E r \in Disconnects : r.pc = "closing"

\* C9: a publish/sendToQueue promise is resolved only once the confirm
\* callback for its message has fired; while the message is merely handed to
\* the channel the promise stays pending
ResolvedOnlyAfterConfirm ==
  \A m \in CallIds :
    /\ pubResult[m] = "resolved" => brokerConf[m] \in {"ack", "nack", "closed"}
    /\ brokerConf[m] = "unconfirmed" => pubResult[m] = "pending"

\* C9 witness: a promise resolved after the broker acked its message
ResolvedAfterAck ==
  \E m \in CallIds : pubResult[m] = "resolved" /\ brokerConf[m] = "ack"

\* C10: a publish the broker nacked, or whose channel closed before the
\* confirm, is never reported as a success
RejectionReportedAsFailure ==
  \A m \in CallIds :
    brokerConf[m] \in {"nack", "closed"} => pubResult[m] # "resolved"

Unsubscribing == {r \in Pending : r.pc \in {"cancel", "drain"}}

\* the caller's call number nevents + 1 issued no request to the broker and
\* left the registry as it was
NothingIssued ==
  /\ tasks' = tasks
  /\ pubCh' = pubCh
  /\ brokerConf' = brokerConf
  /\ consumers' = consumers

\* C12: with valid arguments and conn null (also while the reconnect loop
\* retries), subscribe, publish, sendToQueue and the five topology helpers
\* fail with the not-connected error, issue no broker request and leave the
\* registry unchanged
NotConnectedFails ==
  [][conn = Null =>
       /\ \A q \in Queues :
            SubscribeCall(q) =>
              subResult'[nevents + 1] = "notConnected" /\ NothingIssued
       /\ \A a \in Args :
            (validate(a) = "ok" /\ (publish(a) \/ sendToQueue(a))) =>
              pubResult'[nevents + 1] = "notConnected" /\ NothingIssued
       /\ (assertExchange \/ assertQueue \/ bindQueue \/ unbindQueue
             \/ \E q \in Queues : DeleteQueueCall(q)) =>
              last'.out = "notConnected" /\ NothingIssued]_vars

\* C12 witness: a topology helper failed with not-connected while the
\* reconnect loop was retrying
HelperRefusedWhileReconnecting ==
  /\ conn = Null
  /\ NLoops > 0
  /\ last.op \in {"topology", "deleteQueue"}
  /\ last.out = "notConnected"

\* the argument faults C13 lists, told from the arguments alone
Malformed(a) ==
  LET ill(k, t) == ~isUndefined(a.props[k]) /\ a.props[k].t # t IN
  \/ isUndefined(a.message)
  \/ ~a.plain
  \/ ill("priority", "integer")
  \/ (a.props["priority"].t = "integer" /\ ~(a.props["priority"].n \in 1..10))
  \/ ill("messageId", "string")
  \/ ill("timestamp", "integer")
  \/ ill("type", "string")

\* C13: publish/sendToQueue with a priority that is no integer in [1,10], no
\* message, a props that is no plain object or an ill-typed messageId,
\* timestamp or type fails with a validation error in every connection state
\* (also when conn is null), attempts no broker call and leaves conn, the
\* channels and the registry unchanged
ValidationBeforeAnyBrokerCall ==
  /\ \A a \in Args : Malformed(a) => validate(a) # "ok"
  /\ [][\A a \in Args :
          (Malformed(a) /\ (publish(a) \/ sendToQueue(a))) =>
             /\ pubResult'[nevents + 1] = "invalid"
             /\ NothingIssued
             /\ UNCHANGED <<conn, incomingChannel, outgoingChannel>>]_vars

\* C13 witness: the first call on a fresh bus was a send with bad arguments
InvalidWhileDisconnected ==
  conn = Null /\ nevents = 1 /\ pubResult[1] = "invalid"

\* C14: unsubscribe(g) with g not in the registry fails with the
\* unknown-consumer error and changes nothing; with g in the registry it sends
\* the cancel of g alone to the broker, and when the broker has answered it
\* removes the mapping of g and no other
UnsubscribeRemovesExactlyOne ==
  [][\A g \in CallIds :
       /\ (UnsubscribeCall(g) /\ g \notin DOMAIN consumers) =>
            /\ last'.out = "unknownConsumer"
            /\ NothingIssued
            /\ UNCHANGED <<conn, incomingChannel, outgoingChannel, active>>
       /\ (UnsubscribeCall(g) /\ g \in DOMAIN consumers) =>
            /\ last'.out = "called"
            /\ consumers' = consumers
            /\ \E r \in Pending' :
                 /\ r.kind = "unsubscribe" /\ r.tags = {g} /\ r.c = incomingChannel
                 /\ tasks' = Put(r)
       /\ \A r \in Pending :
            (r.kind = "unsubscribe" /\ CancelOk(r, g)) =>
              /\ DOMAIN consumers' = DOMAIN consumers \ {g}
              /\ \A h \in DOMAIN consumers' : consumers'[h] = consumers[h]
              /\ \A h \in CallIds \ {g} : active'[h] = active[h]]_vars

\* C14 witness: of two registrations one was unsubscribed and the other stays
OneOfTwoUnsubscribed ==
  \E g, h \in CallIds :
    /\ subResult[g] = "ok" /\ subResult[h] = "ok"
    /\ g \notin DOMAIN consumers
    /\ h \in DOMAIN consumers /\ active[h] # Null
    /\ Unsubscribing = {}

\* C15: deleteQueue(q) waits for the cancels of exactly the registrations
\* mapped to q; the delete request is issued only when all of them are out of
\* the registry, and no registration of another queue is touched
DeleteQueueDrainsItsQueueOnly ==
  /\ [](\A r \in Pending :
          (r.kind = "deleteQueue" /\ r.pc = "rpc") => r.snap \cap DOMAIN consumers = {})
  /\ [][\A q \in Queues :
          (DeleteQueueCall(q) /\ conn # Null) =>
             /\ consumers' = consumers
             /\ \E r \in Pending' :
                  /\ r.kind = "deleteQueue" /\ r.pc = "drain"
                  /\ r.tags = {g \in DOMAIN consumers : consumers[g] = q}
                  /\ r.snap = r.tags
                  /\ tasks' = Put(r)]_vars
  /\ [][\A r \in Pending : \A g \in CallIds :
          (r.kind = "deleteQueue" /\ CancelOk(r, g)) =>
             /\ g \in r.snap
             /\ DOMAIN consumers' = DOMAIN consumers \ {g}
             /\ \A h \in DOMAIN consumers' : consumers'[h] = consumers[h]]_vars

\* C15 witness: the delete of q1 is issued after its registration was drained,
\* with the registration of another queue still in place
DeleteIssuedOtherQueueKept ==
  \E r \in Pending :
    /\ r.kind = "deleteQueue" /\ r.pc = "rpc" /\ r.snap # {}
    /\ \E h \in DOMAIN consumers : consumers[h] # r.q /\ active[h] # Null

\* C16: a call of unsubscribeAll() unsubscribes every registration: once it is
\* over and no cancel is pending the registry is empty
UnsubscribeAllEmptiesRegistry ==
  (last.op = "unsubscribeAll" /\ Unsubscribing = {}) => DOMAIN consumers = {}

\* C17: subscribe never fails with 'Subscription already active': on a bus
\* with conn set every subscribe issues its consume request, whatever
\* registrations are active
NeverAlreadyActive ==
  /\ [](consumerTag = Null /\ \A g \in CallIds : subResult[g] # "alreadyActive")
  /\ [][\A q \in Queues :
          (SubscribeCall(q) /\ conn # Null) =>
             /\ subResult'[nevents + 1] = "pending"
             /\ \E r \in Pending' :
                  r.kind = "subscribe" /\ r.tag = nevents + 1 /\ r.q = q /\ tasks' = Put(r)]_vars

\* C17 witness: two registrations on distinct queues are held and active at once
TwoQueuesAtOnce ==
  \E g, h \in DOMAIN consumers :
    /\ consumers[g] # consumers[h]
    /\ subResult[g] = "ok" /\ subResult[h] = "ok"
    /\ active[g] # Null /\ active[h] # Null

\* C18: in the single-subscription variant a subscribe() called on a bus that
\* has its subscriber channel while consumerTag is set fails with
\* 'Subscription already active' and issues no consume request; once the
\* unsubscribe handle's cancel is confirmed, once disconnect() has returned,
\* and once a consume request has failed, consumerTag is null; and a
\* subscribe() called while consumerTag is null does not fail with
\* 'Subscription already active'.
SingleSubscriptionAtATime ==
  [][/\ (SingleSubscribeCall /\ incomingChannel # Null /\ consumerTag # Null)
          => (subResult'[nevents + 1] = "alreadyActive" /\ tasks' = tasks)
     /\ (SingleSubscribeCall /\ consumerTag = Null)
          => subResult'[nevents + 1] # "alreadyActive"
     /\ \A r \in Pending : SingleCancelOk(r) => consumerTag' = Null
     /\ (conn # Null /\ conn' = Null) => consumerTag' = Null
     /\ (SingleDisconnectCall /\ conn = Null) => consumerTag' = Null
     /\ \A g \in CallIds : (subResult[g] = "pending" /\ subResult'[g] = "failed")
          => consumerTag' = Null
    ]_vars

\* the delivery invocation k received, while the broker still holds it unsettled
Outstanding(k) == {d \in unacked : d.n = k.n}

\* C11: a delivered message is settled only through the done callback of its
\* own listener invocation: every ack or nack the bus sends comes from a done()
\* call, is an ack for done() without error and a nack for done(error), and
\* settles exactly the delivery that invocation received; and a delivery leaves
\* the broker's unsettled set in no other way while its channel is open.
SettledOnlyByItsDone ==
  [][/\ \A k \in calls, err \in BOOLEAN :
          (Done(k, err) /\ settled' # settled)
            => settled' = [by |-> k.n, n |-> k.n, how |-> IF err THEN "nack" ELSE "ack"]
     /\ settled' # settled => \E k \in calls, err \in BOOLEAN : Done(k, err)
     /\ \A d \in unacked :
          (\A e \in unacked' : e.n # d.n)
            => \/ conns'[d.c].st # "open"
               \/ settled' # settled /\ settled'.n = d.n
    ]_vars

\* the four props keys the code reads
Read == {"messageId", "type", "priority", "timestamp"}

Confirmed(m) == m \in DOMAIN sent /\ brokerConf[m] = "ack"

\* the invocation k handed the listener the payload of m and the type and
\* timestamp its sender supplied
Carries(k, m) ==
  /\ m \in DOMAIN sent
  /\ k.m = m
  /\ k.msg = sent[m].args.message
  /\ LET p == sent[m].args.props IN
       /\ isUndefined(p["type"])
            \/ ("type" \in DOMAIN k.props /\ k.props["type"] = p["type"])
       /\ isUndefined(p["timestamp"])
            \/ ("timestamp" \in DOMAIN k.props /\ k.props["timestamp"] = p["timestamp"])

\* consumer g is registered and the broker serves it
Subscribed(g) == g \in DOMAIN consumers /\ IsOpen(active[g])

\* the broker serves a consumer of the bus on queue q
Served(q) == \E g \in CallIds : IsOpen(active[g]) /\ cons[g].q = q

\* message m waits in the queue it was sent to
Waiting(m) ==
  /\ m \in DOMAIN sent
  /\ \E i \in 1..Len(queued[sent[m].q]) : queued[sent[m].q][i] = m

\* the queue of message m was deleted with m in it
Deleted(m) == Confirmed(m) /\ ~Waiting(m) /\ ~\E k \in calls : k.m = m

\* a delivery from queue q is still unsettled though its listener called done,
\* or though no listener was invoked for it
BlockedOn(q) == \E k \in calls : k.done /\ \E d \in Outstanding(k) : d.q = q

Carried == {"messageId", "priority", "timestamp"}

ConnectWhenConnectedChangesNothing ==
  [][(conn # Null /\ ConnectCall) =>
       /\ tasks' = tasks
       /\ UNCHANGED <<conn, incomingChannel, outgoingChannel, consumers, conns,
                      active>>]_vars

\* C22 witness: the first call on a connected bus was a connect(): nothing is
\* pending, no other call left a result, and the bus is connected as before
ConnectedTwice ==
  /\ nevents = 1
  /\ conn = 1 /\ IsOpen(conn)
  /\ incomingChannel = conn /\ outgoingChannel = conn
  /\ tasks = EmptyBag
  /\ last = NoCall
  /\ subResult[1] = "none" /\ pubResult[1] = "none"

\* C23: disconnect() called while conn is null returns at once: it starts no
\* cancel and no close(), no promise of it stays pending or rejects, and conn,
\* both channels, the registry, the connections and the consumers at the broker
\* are as before.
DisconnectWhenDisconnectedChangesNothing ==
  [][(conn = Null /\ DisconnectCall) =>
       /\ last'.out = "returned"
       /\ tasks' = tasks
       /\ UNCHANGED <<conn, incomingChannel, outgoingChannel, consumers, conns,
                      active>>]_vars

\* C23 witness: a bus that was connected and disconnected got a second
\* disconnect(), which returned
DisconnectedTwice ==
  /\ last = [op |-> "disconnect", out |-> "returned"]
  /\ conn = Null /\ incomingChannel = Null /\ outgoingChannel = Null
  /\ nevents > 1
  /\ tasks = EmptyBag

\* C24: what decrypt returns for a buffer that encrypt made of a payload, on
\* the same bus, is that payload; and with no key the buffer holds the bytes
\* of the serialised payload as they are.
DecryptInvertsEncrypt ==
  /\ \A k \in calls : k.m \in DOMAIN sent => k.msg = sent[k.m].args.message
  /\ \A m \in DOMAIN sent :
       encryptionKey = NoKey =>
         sent[m].content = [enc |-> "utf8", key |-> NoKey,
                            bytes |-> utf8(stringify(sent[m].args.message))]

\* calls with props that pass the checks and a message that is null or absent
NullOrAbsent == {a \in Args : a.message \in {Nul, Undefined} /\ a.plain /\ a.props \in GoodProps}

\* C25: a publish/sendToQueue with a string exchange and routing key (queue)
\* fails on the message check exactly when the message is undefined, and then
\* nothing goes to the broker; with an explicit null, valid props and an open
\* confirm channel the call hands the serialised null to the channel.
MessageRequiredOnlyWhenUndefined ==
  /\ \A a \in Args : (validate(a) = "message") <=> isUndefined(a.message)
  /\ [][\A a \in NullOrAbsent, q \in Queues :
          ((publish(a) \/ sendToQueue(a)) /\ Submit(q, a)) =>
            LET m == nevents + 1 IN
            /\ isUndefined(a.message) =>
                 /\ pubResult'[m] = "invalid"
                 /\ NothingIssued
                 /\ sent' = sent
            /\ (a.message = Nul /\ IsOpen(outgoingChannel) /\ conn # Null) =>
                 /\ pubResult'[m] = handOff
                 /\ m \in DOMAIN sent'
                 /\ sent'[m].args.message = Nul
                 /\ sent'[m].content.bytes = utf8(<<"n", "u", "l", "l">>)]_vars

\* C25 witness: a null message was handed over and confirmed, and another call
\* was refused for its arguments
NullSentAndAnotherRefused ==
  /\ \E m \in DOMAIN sent \cap CallIds : sent[m].args.message = Nul /\ brokerConf[m] = "ack"
  /\ \E n \in CallIds : pubResult[n] = "invalid"

\* C26: new MessageBus(p) with p no plain object throws the TypeError on props
\* that names the kind of p; with a plain object whose url is no string, the
\* one on url naming the kind of url; with a string url and an encryptionKey
\* that is given, not null and no string, the one on encryptionKey naming its
\* kind; and no bus exists then.  Otherwise the new bus has conn and both
\* channels null, an empty registry and nothing pending.
ConstructorValidatesThenStartsDisconnected ==
  [][\A p \in CtorArgs :
       Construct(p) =>
         LET k == p.encryptionKey
             given == k.t \notin {"undefined", "null"}
             refused(what, v) == /\ last'.out = what
                                 /\ last'.received = typeOf(v)
                                 /\ LET str == <<"number", "string", "null", "boolean",
                                                 "array", "undefined">>
                                    IN \E i \in DOMAIN str : str[i] = last'.received
                                 /\ encryptionKey' = Unmade
         IN
         /\ p.v.t # "object" => refused("props", p.v)
         /\ (p.v.t = "object" /\ p.url.t # "string") => refused("url", p.url)
         /\ (p.v.t = "object" /\ p.url.t = "string" /\ given /\ k.t # "string") =>
              refused("encryptionKey", k)
         /\ (p.v.t = "object" /\ p.url.t = "string" /\ (~given \/ k.t = "string")) =>
              /\ last'.out = "ok"
              /\ encryptionKey' # Unmade
              /\ (encryptionKey' = NoKey) <=> ~given
              /\ conn' = Null /\ incomingChannel' = Null /\ outgoingChannel' = Null
              /\ DOMAIN consumers' = {}
              /\ tasks' = EmptyBag]_vars

\* C26 witness: the constructor refused an array
ArrayRefused ==
  /\ last = [op |-> "constructor", out |-> "props", received |-> "array"]
  /\ encryptionKey = Unmade

\* C27: in every step in which a reconnect loop exits, conn is an open
\* connection and incomingChannel and outgoingChannel are the channels opened on
\* it (a channel carries the number of its connection): neither null nor a
\* channel of an earlier connection.
LoopExitsWithChannelsOfConn ==
  [][NLoops' < NLoops =>
       /\ IsOpen(conn')
       /\ incomingChannel' = conn'
       /\ outgoingChannel' = conn']_vars

\* the connections the bus opened that are open now
OpenConns == {c \in ConnIds : conns[c].st = "open"}

\* C28: at most one connection opened by the bus is open, and conn holds every
\* connection of the bus that is open.
OneOpenConnectionHeld ==
  /\ Cardinality(OpenConns) <= 1
  /\ \A c \in OpenConns : conn = c

\* C29, at the places reached through a call of the caller or an answer of the
\* broker: no step calls a method on a null handle: conn is not null where
\* connect() (line 69) and reconnect() (line 106) use it, and the channel is not
\* null where connect() (line 71), subscribe() (line 183), unsubscribe()
\* (line 215), publish() and sendToQueue() (lines 273, 339) and a done callback
\* (line 187) use it.
NoCallOnNullHandle ==
  [][/\ \A r \in Pending :
          /\ CreateChannelOk(r) => conn # Null
          /\ CreateConfirmChannelOk(r) => incomingChannel # Null
     /\ \A c \in ConnIds :
          ((Fault(c) \/ CloseCompletes(c)) /\ conns[c].lis) => conn # Null
     /\ (conn # Null /\ ~alreadyActive /\ \E q \in Queues : SubscribeCall(q)) =>
          incomingChannel # Null
     /\ \A g \in DOMAIN consumers : UnsubscribeCall(g) => incomingChannel # Null
     /\ (conn # Null /\ \E a \in Args :
                          validate(a) = "ok" /\ (publish(a) \/ sendToQueue(a))) =>
          outgoingChannel # Null
     /\ \A k \in calls, err \in BOOLEAN : Done(k, err) => incomingChannel # Null]_vars

\* the broker holds delivery n, which the bus has not settled
Held(n) == \E d \in unacked : d.n = n

\* decrypt() returned the payload of delivery n to the consume callback
Readable(n) == \E k \in calls : k.n = n /\ k.msg # Failure

\* C30: with listeners that call done, no delivery to a consumer of the bus
\* stays unsettled for ever: it is acked or nacked, also when decrypt() cannot
\* read its payload; a delivery the bus could read may instead go back to its
\* queue when its connection is lost or closed, and nothing is owed once the
\* process has ended.
DeliveredEventuallySettled ==
  \A n \in 1..(2 * MaxIds) :
    Held(n) ~> \/ settled.n = n /\ settled.how \in {"ack", "nack"}
               \/ ~Held(n) /\ Readable(n)
               \/ ~Up

\* C31: a done callback issues its ack or nack on the channel that delivered
\* its message, never on another inbound channel the bus has opened since.
DoneOnDeliveringChannel ==
  [][\A k \in calls :
       (/\ ~k.done
        /\ [k EXCEPT !.done = TRUE] \in calls'
        /\ IsOpen(incomingChannel))
       => k.c = incomingChannel]_vars

\* C32: in every step in which a reconnect loop exits with the bus Connected
\* again (conn open, both channels opened on it), every identifier in the
\* registry whose consume request the broker accepted names a consumer that is
\* active at the broker on the current inbound channel: none was recorded on
\* an earlier connection.
RegistryOfCurrentEpoch ==
  [][(/\ NLoops' < NLoops
      /\ IsOpen(conn')
      /\ incomingChannel' = conn'
      /\ outgoingChannel' = conn')
     => \A g \in DOMAIN consumers' :
          subResult'[g] = "ok" => active'[g] = incomingChannel']_vars

NDisconnects ==
  IF Disconnects = {} THEN 0 ELSE BagCardinality([r \in Disconnects |-> tasks[r]])

\* C33 as stated: in the step in which a cancel of its drain fails,
\* disconnect() rejects with conn and both channels non-null, the close
\* observer attached to conn, and the registration whose cancel failed in the
\* registry.
DrainFailureKeepsHandles ==
  [][\A r \in Disconnects, g \in CallIds :
       CancelFail(r, g) =>
         /\ conn' \in ConnIds
         /\ incomingChannel' # Null
         /\ outgoingChannel' # Null
         /\ conns'[conn'].lis
         /\ g \in DOMAIN consumers']_vars

\* C33, amended: in the step in which a cancel of its drain fails,
\* disconnect() ends without closing: the call is over, no close() is issued,
\* and conn, both channels, the observers and the registry are what they were
\* before the step (null or closed where the connection had dropped or was
\* still being set up).
DrainFailureRejectsWithoutClosing ==
  [][\A r \in Disconnects, g \in CallIds :
       CancelFail(r, g) =>
         /\ NDisconnects' = NDisconnects - 1
         /\ \A c \in ConnIds : conns'[c] = conns[c]
         /\ conn' = conn
         /\ incomingChannel' = incomingChannel
         /\ outgoingChannel' = outgoingChannel
         /\ consumers' = consumers]_vars

\* C33 witness: a disconnect() was rejected by its drain, and the bus still
\* holds its connection with the observer attached and the registration
DisconnectRejectedByDrain ==
  /\ last = [op |-> "disconnect", out |-> "rejected"]
  /\ conn \in ConnIds
  /\ conns[conn].lis
  /\ DOMAIN consumers # {}

\* the consumerTags with a consume request pending
Consumes(ts) == {r.tag : r \in {x \in BagToSet(ts) : x.pc = "consume"}}

\* a registration of an earlier connection: the broker accepted it and ended
\* it when its connection closed, and the registry still holds it
Abandoned(g) ==
  g \in DOMAIN consumers /\ subResult[g] = "ok" /\ active[g] = Null

\* C34: a consume request is issued only by a subscribe() call of the caller,
\* never by the reconnect loop or by connect(); a registration whose consumer
\* ended with its connection is never made active again, and the listener is
\* invoked only for a consumer that is active on an open channel, so after a
\* reconnect no earlier listener receives a message.
LoopIssuesNoConsume ==
  [][/\ \A g \in Consumes(tasks') \ Consumes(tasks) :
          nevents' = nevents + 1 /\ subResult[g] = "none" /\ subResult'[g] = "pending"
     /\ \A g \in CallIds : Abandoned(g) => active'[g] = Null
     /\ \A k \in calls' : (\A j \in calls : j.n # k.n)
                            => IsOpen(active[k.g]) /\ ~Abandoned(k.g)]_vars

\* C34 witness: after a reconnect the bus is connected again, the listener that
\* got a message on the lost connection is still registered, and the message is
\* back in its queue with no consumer to take it
AbandonedAfterReconnect ==
  /\ NLoops = 0
  /\ IsOpen(conn)
  /\ incomingChannel = conn
  /\ outgoingChannel = conn
  /\ \E g \in CallIds :
       /\ Abandoned(g)
       /\ \E k \in calls : k.g = g /\ k.c = Dead
       /\ queued[consumers[g]] # <<>>
       /\ ~\E h \in CallIds : IsOpen(active[h])

\* C35: in the step in which a connect() of the caller resolves, conn is an
\* open connection with the close observer attached, incomingChannel and
\* outgoingChannel are channels opened on it, and the prefetch that just
\* resolved was set on the channel that is now incomingChannel.
ConnectResolvesFullySetUp ==
  [][\A r \in Pending :
       (r.kind = "connect" /\ PrefetchOk(r)) =>
          /\ IsOpen(conn')
          /\ conns'[conn'].lis
          /\ incomingChannel' = conn'
          /\ outgoingChannel' = conn'
          /\ r.c = incomingChannel']_vars

\* the cancel requests for consumerTag g that are with the broker, unanswered
CancelsPending(g) ==
  LET cs == {r \in Pending : r.pc \in {"cancel", "drain"} /\ g \in r.tags /\ IsOpen(r.c)}
  IN IF cs = {} THEN 0 ELSE BagCardinality([r \in cs |-> tasks[r]])

\* C36: the broker is never asked twice to cancel one consumer: of the
\* unsubscribe calls for one identifier (the handle, unsubscribe(), the drain of
\* disconnect() or deleteQueue()) at most one has a cancel request pending.
CancelIssuedAtMostOnce ==
  \A g \in CallIds : CancelsPending(g) <= 1
====
